---- MODULE Spec2Model ----
(***************************************************************************)
(* Model of true_runtime_profiler.py: the TrueRuntimeProfiler class        *)
(* (attach-mode profile_function_in_runtime, spawn-mode                    *)
(* profile_full_python) and the main() orchestrator.                       *)
(*                                                                         *)
(* Python values are tagged records; Python strings are sequences of       *)
(* tokens (a token is one character, or one fixed literal such as          *)
(* "ERROR:" or "None"), so that repr(), eval(), strip(), startswith() and  *)
(* split() are computed on the text and not assumed.                       *)
(* The strace collector and the workload handler are the environment:      *)
(* their outcomes are nondeterministic choices in the actions.             *)
(***************************************************************************)
EXTENDS Integers, Sequences, FiniteSets, TLC

\* ------------------------------------------------------------------ bounds
\* lines a workload prints to stdout besides its result
MaxNoise == 1
\* length of an exception message, in tokens
MaxMsgLen == 1
\* nesting depth of a mapping returned by a handler
MaxDepth == 1
\* length of a workload name, in tokens
MaxNameLen == 2
\* workloads profiled one after the other in the same directory
MaxPasses == 2

\* ------------------------------------------------------- program constants
\* time.sleep(1)
SettleDelay == 1
\* strace_proc.wait(timeout=10)
StopTimeout == 10
\* strace_proc.wait(timeout=5)
TerminateTimeout == 5
\* subprocess.run(..., timeout=60)
RunTimeout == 60
\* sys.exit(1) of the generated script
FaultExitCode == 1

\* ------------------------------------------------------------ Python values
PyNone == [t |-> "None"]
PyInt(n) == [t |-> "int", v |-> n]
PyStr(s) == [t |-> "str", v |-> s]
PyDict(k, v) == [t |-> "dict", k |-> k, v |-> v]
PyObj == [t |-> "obj"]
\* a key that the returned dict does not have
AbsentKey == [t |-> "absent"]

SP == " "
NL == "\n"
Whitespace == {SP, NL}
DigitChars == <<"0", "1", "2", "3", "4", "5", "6", "7", "8", "9">>
Letters == {"a", "m", "k", "x"}

\* the values a handler may return: scalars, an instance of a class, and
\* mappings of them up to MaxDepth
RECURSIVE ValuesUpTo(_)
ValuesUpTo(d) ==
    IF d = 0 THEN {PyNone, PyInt(42), PyStr(<<"a">>), PyObj}
    ELSE LET inner == ValuesUpTo(d - 1)
         IN inner \cup {PyDict(<<"k">>, v) : v \in inner}

Values == ValuesUpTo(MaxDepth)

\* messages of the exceptions a workload raises: str(e), possibly empty
RECURSIVE SeqsUpTo(_, _)
SeqsUpTo(S, n) ==
    IF n = 0 THEN {<<>>}
    ELSE LET shorter == SeqsUpTo(S, n - 1)
         IN shorter \cup {Append(s, x) : s \in shorter, x \in S}

FaultMsgs == SeqsUpTo({"m"}, MaxMsgLen)

\* what a workload writes to standard output while it is loaded and run
NoiseLines == {<<"x", NL>>, <<"ERROR:", SP, "x", NL>>}

RECURSIVE Flatten(_)
Flatten(ss) == IF ss = <<>> THEN <<>> ELSE Head(ss) \o Flatten(Tail(ss))

Noises == {Flatten(ls) : ls \in SeqsUpTo(NoiseLines, MaxNoise)}

\* ------------------------------------------------------------- str methods
RECURSIVE LStrip(_)
LStrip(s) == IF s # <<>> /\ Head(s) \in Whitespace THEN LStrip(Tail(s)) ELSE s

RECURSIVE RStrip(_)
RStrip(s) ==
    IF s # <<>> /\ s[Len(s)] \in Whitespace THEN RStrip(SubSeq(s, 1, Len(s) - 1)) ELSE s

Strip(s) == RStrip(LStrip(s))

\* s.startswith('ERROR:')
StartsWithError(s) == s # <<>> /\ Head(s) = "ERROR:"

\* s.split('ERROR:', 1)[1], for an s that holds 'ERROR:'
RECURSIVE AfterError(_)
AfterError(s) ==
    IF s = <<>> THEN <<>>
    ELSE IF Head(s) = "ERROR:" THEN Tail(s) ELSE AfterError(Tail(s))

\* decimal digits of a natural number
RECURSIVE Digits(_)
Digits(n) ==
    IF n < 10 THEN <<DigitChars[n + 1]>>
    ELSE Digits(n \div 10) \o <<DigitChars[(n % 10) + 1]>>

\* repr(v)
RECURSIVE PyRepr(_)
PyRepr(v) ==
    CASE v.t = "None" -> <<"None">>
      [] v.t = "int" -> Digits(v.v)
      [] v.t = "str" -> <<"'">> \o v.v \o <<"'">>
      [] v.t = "dict" -> <<"{", "'">> \o v.k \o <<"'", ":", SP>> \o PyRepr(v.v) \o <<"}">>
      [] v.t = "obj" -> <<"<", "o", ">">>

IsDigit(c) == \E i \in 1..10 : DigitChars[i] = c
DigitValue(c) == (CHOOSE i \in 1..10 : DigitChars[i] = c) - 1

RECURSIVE IntOf(_)
IntOf(s) ==
    IF Len(s) = 1 THEN DigitValue(s[1])
    ELSE 10 * IntOf(SubSeq(s, 1, Len(s) - 1)) + DigitValue(s[Len(s)])

EvalError == [ok |-> FALSE, val |-> PyNone]
EvalOk(v) == [ok |-> TRUE, val |-> v]

\* eval(s) of an expression without surrounding whitespace: the literal it
\* denotes, or a SyntaxError / NameError
RECURSIVE ParseExpr(_)
ParseExpr(s) ==
    LET n == Len(s) IN
    IF n = 0 THEN EvalError
    ELSE IF s = <<"None">> THEN EvalOk(PyNone)
    ELSE IF \A i \in 1..n : IsDigit(s[i])
         THEN IF n > 1 /\ s[1] = "0" THEN EvalError ELSE EvalOk(PyInt(IntOf(s)))
    ELSE IF n >= 2 /\ s[1] = "'" /\ s[n] = "'"
         THEN IF \A i \in 2..(n - 1) : s[i] \in Letters
              THEN EvalOk(PyStr(SubSeq(s, 2, n - 1)))
              ELSE EvalError
    ELSE IF n >= 8 /\ s[1] = "{" /\ s[n] = "}" /\ s[2] = "'" /\ s[3] \in Letters
            /\ s[4] = "'" /\ s[5] = ":" /\ s[6] = SP
         THEN LET inner == ParseExpr(SubSeq(s, 7, n - 1))
              IN IF inner.ok THEN EvalOk(PyDict(<<s[3]>>, inner.val)) ELSE EvalError
    ELSE EvalError

\* eval(s): surrounding blanks are ignored, a line break inside is an error
PyEval(s) == ParseExpr(Strip(s))

\* a string literal: any characters but a quote or a line break between quotes
ParseLiteral(s) ==
    LET n == Len(s) IN
    IF n >= 2 /\ s[1] = "'" /\ s[n] = "'"
    THEN IF \A i \in 2..(n - 1) : s[i] \notin {"'", NL}
         THEN EvalOk(PyStr(SubSeq(s, 2, n - 1)))
         ELSE EvalError
    ELSE ParseExpr(s)

\* repr of the entries of a dict of literals: 'key': value, separated by ", "
RECURSIVE ReprEntries(_)
ReprEntries(d) ==
    IF d = <<>> THEN <<>>
    ELSE <<"'", d[1][1], "'", ":", SP>> \o PyRepr(d[1][2])
         \o (IF Len(d) > 1 THEN <<",", SP>> ELSE <<>>) \o ReprEntries(Tail(d))

\* repr(d) of a payload
ReprPayload(d) == <<"{">> \o ReprEntries(d) \o <<"}">>

\* the entries a dict display denotes, or a SyntaxError
RECURSIVE ParseEntries(_)
ParseEntries(s) ==
    LET n == Len(s)
        commas == {i \in 1..n : s[i] = ","}
        stop == IF commas = {} THEN n + 1 ELSE CHOOSE i \in commas : \A j \in commas : i <= j
    IN IF n = 0 THEN [ok |-> TRUE, val |-> <<>>]
       ELSE IF n >= 6 /\ stop >= 7 /\ s[1] = "'" /\ s[2] \notin {"'", NL} /\ s[3] = "'"
               /\ s[4] = ":" /\ s[5] = SP
            THEN LET value == ParseLiteral(SubSeq(s, 6, stop - 1))
                     rest == IF stop >= n THEN [ok |-> stop > n, val |-> <<>>]
                             ELSE IF s[stop + 1] = SP /\ stop + 2 <= n
                                  THEN ParseEntries(SubSeq(s, stop + 2, n))
                                  ELSE [ok |-> FALSE, val |-> <<>>]
                 IN IF value.ok /\ rest.ok
                    THEN [ok |-> TRUE, val |-> <<<<s[2], value.val>>>> \o rest.val]
                    ELSE [ok |-> FALSE, val |-> <<>>]
            ELSE [ok |-> FALSE, val |-> <<>>]

\* the payload the text of a dict display denotes when the script runs
EvalPayload(s) ==
    LET n == Len(s)
        entries == IF n >= 2 /\ s[1] = "{" /\ s[n] = "}"
                   THEN ParseEntries(SubSeq(s, 2, n - 1))
                   ELSE [ok |-> FALSE, val |-> <<>>]
    IN IF entries.ok THEN entries.val ELSE <<<<"SyntaxError", PyNone>>>>

\* --------------------------------------------------------- workload registry
\* self.correct_inputs: each payload is the sequence of its (key, value)
\* pairs, in the order of the dict
correct_inputs ==
    [n \in {"110.dynamic-html", "130.crud-api", "210.thumbnailer", "220.video-processing",
            "311.compression", "411.image-recognition", "503.graph-bfs",
            "501.graph-pagerank", "504.dna-visualisation", "502.graph-mst",
            "020.network-benchmark", "030.clock-synchronization", "040.server-reply",
            "010.sleep", "120.uploader"} |->
        CASE n = "110.dynamic-html" ->
                <<<<"username", PyStr(<<"testuser">>)>>, <<"random_len", PyInt(10)>>>>
          [] n = "130.crud-api" -> <<<<"action", PyStr(<<"get">>)>>, <<"id", PyStr(<<"1">>)>>>>
          [] n = "210.thumbnailer" ->
                <<<<"image", PyStr(<<"test.jpg">>)>>, <<"size", PyInt(100)>>>>
          [] n = "220.video-processing" -> <<<<"video", PyStr(<<"test.mp4">>)>>>>
          [] n = "311.compression" -> <<<<"text", PyStr(<<"Hello World">>)>>>>
          [] n = "411.image-recognition" -> <<<<"image", PyStr(<<"test.jpg">>)>>>>
          [] n = "503.graph-bfs" -> <<<<"size", PyInt(10)>>>>
          [] n = "501.graph-pagerank" -> <<<<"size", PyInt(10)>>>>
          [] n = "504.dna-visualisation" -> <<<<"sequence", PyStr(<<"ATCGATCG">>)>>>>
          [] n = "502.graph-mst" -> <<<<"size", PyInt(10)>>>>
          [] n = "020.network-benchmark" -> <<<<"port", PyInt(8080)>>>>
          [] n = "030.clock-synchronization" -> <<<<"time", PyStr(<<"12:00:00">>)>>>>
          [] n = "040.server-reply" -> <<<<"message", PyStr(<<"hello">>)>>>>
          [] n = "010.sleep" -> <<<<"sleep_time", PyInt(1)>>>>
          [] n = "120.uploader" ->
                <<<<"file", PyStr(<<"test.txt">>)>>, <<"content", PyStr(<<"hello world">>)>>>>]

DefaultInput == <<<<"data", PyStr(<<"test">>)>>>>

\* the fallback payload for every name, mapped or not
InputAlwaysDefault(function_name) == DefaultInput

\* self.correct_inputs.get(function_name, {'data': 'test'})
_get_input_for_function(function_name) ==
    IF function_name \in DOMAIN correct_inputs THEN correct_inputs[function_name]
    ELSE DefaultInput

\* '110.dynamic-html' in func['name'], over the names the benchmarks
\* directory may hold
NamesWithTarget == {"110.dynamic-html", "110.dynamic-html-v2"}
IsTargetName(name) == name \in NamesWithTarget

\* the lists _discover_functions may return (rglob order is arbitrary)
FunctionLists ==
    {<<>>, <<"010.sleep">>, <<"110.dynamic-html">>, <<"010.sleep", "110.dynamic-html-v2">>}

NoTarget == "None"

\* the loop of main() that picks the first function whose name matches
RECURSIVE FindTarget(_)
FindTarget(funcs) ==
    IF funcs = <<>> THEN NoTarget
    ELSE IF IsTargetName(Head(funcs)) THEN Head(funcs) ELSE FindTarget(Tail(funcs))

\* ------------------------------------------------------------- environment
\* what loading and calling the workload does: the module fails to load, or
\* the handler returns val, or the handler raises Exception(msg); noise is
\* what the workload prints on the way
Behaviours ==
    {[kind |-> "return", val |-> v, msg |-> <<>>, noise |-> n] : v \in Values, n \in Noises}
    \cup {[kind |-> k, val |-> PyNone, msg |-> m, noise |-> n] :
            k \in {"load_fault", "fault"}, m \in FaultMsgs, n \in Noises}

\* seconds strace takes to attach to the host process
AttachLatencies == {0, SettleDelay + 1}
\* seconds strace takes to exit once it has been signalled
ExitLatencies == {1, StopTimeout + 1, StopTimeout + TerminateTimeout + 1}
\* seconds a traced run of the script takes
RunDurations == {5, RunTimeout + 1}

AttachSessions == {"runtime_summary", "runtime_full"}
SpawnSessions == {"fullpython_summary", "fullpython_full"}
Sessions == AttachSessions \cup SpawnSessions

\* f"{prefix}_{function_name}.txt"
StraceFile(prefix, function_name) == <<prefix, "_", function_name, ".txt">>

\* the text of the four literal prefixes of lines 78, 81, 161 and 162
PrefixText(prefix) ==
    CASE prefix = "runtime_summary" -> <<"runtime", "_", "summary">>
      [] prefix = "runtime_full" -> <<"runtime", "_", "full">>
      [] prefix = "fullpython_summary" -> <<"fullpython", "_", "summary">>
      [] prefix = "fullpython_full" -> <<"fullpython", "_", "full">>

\* a file name that tells the modes apart but not the granularities
PathTextByMode(prefix, name) == <<Head(PrefixText(prefix)), "_">> \o name \o <<".txt">>

\* the text of f"{prefix}_{function_name}.txt", for a name given as text
PathText(prefix, name) == PrefixText(prefix) \o <<"_">> \o name \o <<".txt">>

\* directory names of workloads: text that may itself hold the separator
\* and the words of the prefixes
NameChars == {"a", "_", "full", "summary"}
WorkloadNames == SeqsUpTo(NameChars, MaxNameLen) \ {<<>>}

\* str(e) of the exceptions the subprocess module raises
MsgNoStrace == PyStr(<<"[Errno 2] No such file or directory: 'strace'">>)
MsgWaitTimeout(secs) == PyStr(<<"Command 'strace' timed out after ">> \o Digits(secs) \o <<" seconds">>)
MsgTimedOut == PyStr(<<"Full Python execution timed out">>)
StraceStderr == <<"strace: attach: ptrace(PTRACE_SEIZE): Operation not permitted">>

NoExc == [type |-> "none", msg |-> PyNone]
FileNotFoundError == [type |-> "FileNotFoundError", msg |-> MsgNoStrace]
TimeoutExpired(secs) == [type |-> "TimeoutExpired", msg |-> MsgWaitTimeout(secs)]

NoResult == [profiling_mode |-> "none"]
NoProcess == [returncode |-> -1, stdout |-> <<>>, stderr |-> <<>>]
NoRetval == NoResult

VARIABLES
    functions,        \* profiler.functions, the names discovered
    handler,          \* what the target workload does when loaded and called
    pc,               \* where the control thread is
    target_func,      \* main: target_func
    summary,          \* profile_function_in_runtime: the summary argument
    strace_proc,      \* profile_function_in_runtime: a Popen handle was obtained
    function_result,  \* local of both profile functions
    error_msg,        \* local of both profile functions
    exc,              \* the exception being handled, if any
    retval,           \* the dict a return statement has chosen
    proc,             \* the collector process of each session
    attach_latency,   \* seconds the current collector needs to attach
    exit_latency,     \* seconds the current collector needs to exit
    fs,               \* per artifact prefix: the file is "missing", "empty" or "written"
    script,           \* the transient script: "none", "exists" or "deleted"
    result_summary,   \* CompletedProcess of the first run
    result_full,      \* CompletedProcess of the second run
    results,          \* main: the three result dicts
    printed,          \* main: the result details the report printed
    events,           \* what happened in each call of a profile function, in order
    handler_input,    \* the argument the handler was called with, in each call
    writes            \* the artifact files written by successive profiling passes

vars == <<functions, handler, pc, target_func, summary, strace_proc, function_result,
          error_msg, exc, retval, proc, attach_latency, exit_latency, fs, script,
          result_summary, result_full, results, printed, events, handler_input, writes>>

ResultNames == {"runtime_summary_result", "runtime_full_result", "fullpython_result"}
\* the three calls main makes
Calls == {"runtime_summary", "runtime_full", "full_python"}
\* the handler has not been called
NoInput == <<<<"not called", PyNone>>>>

Init ==
    /\ functions \in FunctionLists
    /\ handler \in Behaviours
    /\ pc = "m_resolve"
    /\ target_func = NoTarget
    /\ summary = TRUE
    /\ strace_proc = FALSE
    /\ function_result = PyNone
    /\ error_msg = PyNone
    /\ exc = NoExc
    /\ retval = NoRetval
    /\ proc = [s \in Sessions |-> "none"]
    /\ attach_latency = 0
    /\ exit_latency = 0
    /\ fs = [s \in Sessions |-> "missing"]
    /\ script = "none"
    /\ result_summary = NoProcess
    /\ result_full = NoProcess
    /\ results = [r \in ResultNames |-> NoResult]
    /\ printed = {}
    /\ events = [s \in Calls |-> <<>>]
    /\ handler_input = [s \in Calls |-> NoInput]
    /\ writes = {}

\* ------------------------------------------------------------ result dicts
\* the dict of lines 121-129
RuntimeSuccessResult(function_name, mode_str, fr, em, input_data, strace_file) ==
    [function_name |-> function_name,
     profiling_mode |-> "runtime_" \o mode_str,
     success |-> TRUE,
     function_result |-> fr,
     error |-> em,
     input_data |-> input_data,
     strace_files |-> <<strace_file>>,
     stdout |-> AbsentKey,
     stderr |-> AbsentKey]

\* the dict of lines 132-138
RuntimeFailureResult(function_name, mode_str, e, input_data) ==
    [function_name |-> function_name,
     profiling_mode |-> "runtime_" \o mode_str,
     success |-> FALSE,
     function_result |-> AbsentKey,
     error |-> e.msg,
     input_data |-> input_data,
     strace_files |-> <<>>,
     stdout |-> AbsentKey,
     stderr |-> AbsentKey]

\* --------------------------------------- profile_function_in_runtime (attach)
ModeStr == IF summary THEN "summary" ELSE "full"
\* the prefix of the artifact of the current attach session
Session == "runtime_" \o ModeStr
InputData == _get_input_for_function(target_func)

Log(s, e) == [events EXCEPT ![s] = Append(@, e)]

\* ptrace lets one tracer attach to a process: another collector is still
\* attached to the host process
HostTraced == \E s \in AttachSessions : proc[s] \in {"attaching", "observing"}

\* the file a collector leaves when it exits: the trace is written out only
\* by a collector that was attached
Flushed(s) == IF proc[s] = "observing" THEN "written" ELSE fs[s]

\* lines 62-84: the call from main, up to strace_proc = None
AttachCall(sum) ==
    /\ pc = IF sum THEN "m_call_rs" ELSE "m_call_rf"
    /\ summary' = sum
    /\ strace_proc' = FALSE
    /\ exc' = NoExc
    /\ retval' = NoRetval
    /\ pc' = "a_popen"
    /\ UNCHANGED <<writes, handler_input, functions, handler,
                   target_func, function_result, error_msg, proc,
                   attach_latency, exit_latency, fs, script, result_summary, result_full,
                   results, printed, events>>

\* the workload is started right after Popen, without the settle delay
AttachStepNoSettle(p) ==
    CASE p = "a_popen" -> "a_load"
      [] p = "a_sleep" -> "a_load"
      [] p = "a_load" -> "a_handler"
      [] p = "a_handler" -> "a_signal"
      [] p = "a_signal" -> "a_wait"
      [] p = "a_wait" -> "a_return"

\* the statement that follows a statement of the try body of lines 85-129
\* when it completes: Popen, sleep, load, handler, send_signal, wait, return
AttachStep(p) ==
    CASE p = "a_popen" -> "a_sleep"
      [] p = "a_sleep" -> "a_load"
      [] p = "a_load" -> "a_handler"
      [] p = "a_handler" -> "a_signal"
      [] p = "a_signal" -> "a_wait"
      [] p = "a_wait" -> "a_return"

\* lines 87-91: subprocess.Popen(strace_cmd): strace is missing and Popen
\* raises, or strace starts and is refused the attach and exits, or it starts
\* and attaches after attach_latency seconds
AttachPopen ==
    /\ pc = "a_popen"
    /\ \/ /\ exc' = FileNotFoundError
          /\ pc' = "a_except"
          /\ events' = Log(Session, "Popen raised")
          /\ UNCHANGED <<strace_proc, proc, attach_latency, fs>>
       \/ /\ strace_proc' = TRUE
          /\ proc' = [proc EXCEPT ![Session] = "exited"]
          /\ fs' = [fs EXCEPT ![Session] = "empty"]
          /\ pc' = AttachStep("a_popen")
          /\ events' = [events EXCEPT ![Session] = @ \o <<"Popen", "attach denied">>]
          /\ UNCHANGED <<exc, attach_latency>>
       \/ /\ ~HostTraced
          /\ \E lat \in AttachLatencies : attach_latency' = lat
          /\ strace_proc' = TRUE
          /\ proc' = [proc EXCEPT ![Session] = "attaching"]
          /\ fs' = [fs EXCEPT ![Session] = "empty"]
          /\ pc' = AttachStep("a_popen")
          /\ events' = Log(Session, "Popen")
          /\ UNCHANGED exc
    /\ UNCHANGED <<writes, handler_input, functions, handler,
                   target_func, summary, function_result, error_msg,
                   retval, exit_latency, script, result_summary, result_full, results,
                   printed>>

\* lines 94-98: time.sleep(1), then the two locals are cleared
AttachSleep ==
    /\ pc = "a_sleep"
    /\ IF proc[Session] = "attaching" /\ attach_latency <= SettleDelay
       THEN /\ proc' = [proc EXCEPT ![Session] = "observing"]
            /\ events' = [events EXCEPT ![Session] = @ \o <<"attached", "sleep">>]
       ELSE /\ proc' = proc
            /\ events' = Log(Session, "sleep")
    /\ function_result' = PyNone
    /\ error_msg' = PyNone
    /\ pc' = AttachStep("a_sleep")
    /\ UNCHANGED <<writes, handler_input, functions, handler,
                   target_func, summary, strace_proc, exc, retval,
                   attach_latency, exit_latency, fs, script, result_summary, result_full,
                   results, printed>>

\* a collector that needed longer than the settle delay attaches while the
\* workload is already running
CollectorAttaches ==
    /\ pc \in {"a_load", "a_handler", "a_signal"}
    /\ proc[Session] = "attaching"
    /\ proc' = [proc EXCEPT ![Session] = "observing"]
    /\ events' = Log(Session, "attached")
    /\ UNCHANGED <<writes, handler_input, functions, handler,
                   pc, target_func, summary, strace_proc,
                   function_result, error_msg, exc, retval, attach_latency, exit_latency,
                   fs, script, result_summary, result_full, results, printed>>

\* the message of the caught exception is dropped
FaultMessageDropped(m) == PyNone

\* str(e) of line 110
FaultMessage(m) == PyStr(m)

\* lines 102-104 and 109-110: the module is loaded; an exception of the load
\* is caught by the inner except
AttachLoad ==
    /\ pc = "a_load"
    /\ IF handler.kind = "load_fault"
       THEN /\ error_msg' = FaultMessage(handler.msg)
            /\ events' = Log(Session, "load raised")
            /\ pc' = "a_signal"
       ELSE /\ error_msg' = error_msg
            /\ events' = Log(Session, "load")
            /\ pc' = AttachStep("a_load")
    /\ UNCHANGED <<writes, handler_input, functions, handler,
                   target_func, summary, strace_proc, function_result,
                   exc, retval, proc, attach_latency, exit_latency, fs, script,
                   result_summary, result_full, results, printed>>

\* lines 107-110: func_module.handler(input_data)
AttachHandler ==
    /\ pc = "a_handler"
    /\ IF handler.kind = "fault"
       THEN /\ error_msg' = FaultMessage(handler.msg)
            /\ function_result' = function_result
            /\ events' = Log(Session, "handler raised")
       ELSE /\ function_result' = handler.val
            /\ error_msg' = error_msg
            /\ events' = Log(Session, "handler")
    /\ pc' = AttachStep("a_handler")
    /\ handler_input' = [handler_input EXCEPT ![Session] = InputData]
    /\ UNCHANGED <<writes, functions, handler, target_func, summary, strace_proc, exc, retval,
                   proc, attach_latency, exit_latency, fs, script, result_summary,
                   result_full, results, printed>>

\* lines 115-116: strace_proc.send_signal(signal.SIGINT)
AttachSignal ==
    /\ pc = "a_signal"
    /\ events' = IF strace_proc THEN Log(Session, "send_signal") ELSE events
    /\ pc' = IF strace_proc THEN AttachStep("a_signal") ELSE AttachStep("a_wait")
    /\ UNCHANGED <<writes, handler_input, functions, handler,
                   target_func, summary, strace_proc, function_result,
                   error_msg, exc, retval, proc, attach_latency, exit_latency, fs, script,
                   result_summary, result_full, results, printed>>

\* the handler an exception of the try body of lines 85-129 reaches
AttachCatch(e) == "a_except"

\* line 117: strace_proc.wait(timeout=10): the collector has exited, or exits
\* within the timeout and leaves its trace, or wait raises TimeoutExpired
AttachWait ==
    /\ pc = "a_wait"
    /\ IF proc[Session] = "exited"
       THEN /\ pc' = AttachStep("a_wait")
            /\ events' = Log(Session, "wait")
            /\ UNCHANGED <<proc, fs, exc, exit_latency>>
       ELSE \E d \in ExitLatencies :
              IF d <= StopTimeout
              THEN /\ proc' = [proc EXCEPT ![Session] = "exited"]
                   /\ fs' = [fs EXCEPT ![Session] = Flushed(Session)]
                   /\ pc' = AttachStep("a_wait")
                   /\ events' = Log(Session, "wait")
                   /\ UNCHANGED <<exc, exit_latency>>
              ELSE /\ exc' = TimeoutExpired(StopTimeout)
                   /\ exit_latency' = d
                   /\ pc' = AttachCatch(TimeoutExpired(StopTimeout))
                   /\ events' = Log(Session, "wait raised")
                   /\ UNCHANGED <<proc, fs>>
    /\ UNCHANGED <<writes, handler_input, functions, handler,
                   target_func, summary, strace_proc, function_result,
                   error_msg, retval, attach_latency, script, result_summary, result_full,
                   results, printed>>

\* lines 119-129: the return of the try body
AttachReturn ==
    /\ pc = "a_return"
    /\ retval' = RuntimeSuccessResult(target_func, ModeStr, function_result, error_msg,
                                      InputData, StraceFile(Session, target_func))
    /\ pc' = "a_finally"
    /\ UNCHANGED <<writes, handler_input, functions, handler,
                   target_func, summary, strace_proc, function_result,
                   error_msg, exc, proc, attach_latency, exit_latency, fs, script,
                   result_summary, result_full, results, printed, events>>

\* lines 131-138: except Exception as e
AttachExcept ==
    /\ pc = "a_except"
    /\ retval' = RuntimeFailureResult(target_func, ModeStr, exc, InputData)
    /\ exc' = NoExc
    /\ pc' = "a_finally"
    /\ UNCHANGED <<writes, handler_input, functions, handler,
                   target_func, summary, strace_proc, function_result,
                   error_msg, proc, attach_latency, exit_latency, fs, script,
                   result_summary, result_full, results, printed, events>>

\* line 144: after terminate(), wait(timeout=5) sees the collector exit, or
\* raises TimeoutExpired, which the bare except of lines 145-146 swallows
TerminateStops(latency) == latency <= StopTimeout + TerminateTimeout

\* lines 139-146, then the assignment of the returned dict in main
AttachFinally ==
    /\ pc = "a_finally"
    /\ IF strace_proc /\ proc[Session] # "exited"
       THEN /\ events' = Log(Session, "terminate")
            /\ IF TerminateStops(exit_latency)
               THEN /\ proc' = [proc EXCEPT ![Session] = "exited"]
                    /\ fs' = [fs EXCEPT ![Session] = Flushed(Session)]
               ELSE UNCHANGED <<proc, fs>>
       ELSE UNCHANGED <<proc, fs, events>>
    /\ results' = [results EXCEPT ![IF summary THEN "runtime_summary_result"
                                    ELSE "runtime_full_result"] = retval]
    /\ retval' = NoRetval
    /\ exit_latency' = 0
    /\ attach_latency' = 0
    /\ pc' = IF summary THEN "m_call_rf" ELSE "m_call_fp"
    /\ UNCHANGED <<writes, handler_input, functions, handler,
                   target_func, summary, strace_proc, function_result,
                   error_msg, exc, script, result_summary, result_full, printed>>

\* a collector that outlived its session exits later on its own
CollectorExitsLate ==
    /\ \E s \in AttachSessions :
          /\ proc[s] \in {"attaching", "observing"}
          /\ results[IF s = "runtime_summary" THEN "runtime_summary_result"
                     ELSE "runtime_full_result"] # NoResult
          /\ proc' = [proc EXCEPT ![s] = "exited"]
          /\ fs' = [fs EXCEPT ![s] = Flushed(s)]
    /\ UNCHANGED <<writes, handler_input, functions, handler,
                   pc, target_func, summary, strace_proc,
                   function_result, error_msg, exc, retval, attach_latency, exit_latency,
                   script, result_summary, result_full, results, printed, events>>

\* ----------------------------------------------- profile_full_python (spawn)
\* the dict of lines 240-251
FullPythonSuccessResult(function_name, fr, em, input_data, summary_file, full_file, cp) ==
    [function_name |-> function_name,
     profiling_mode |-> "full_python",
     success |-> TRUE,
     function_result |-> fr,
     error |-> em,
     input_data |-> input_data,
     strace_files |-> <<summary_file, full_file>>,
     stdout |-> PyStr(cp.stdout),
     stderr |-> PyStr(cp.stderr)]

\* the dict of lines 254-260
FullPythonTimeoutResult(function_name, input_data) ==
    [function_name |-> function_name,
     profiling_mode |-> "full_python",
     success |-> FALSE,
     function_result |-> AbsentKey,
     error |-> MsgTimedOut,
     input_data |-> input_data,
     strace_files |-> <<>>,
     stdout |-> AbsentKey,
     stderr |-> AbsentKey]

\* a session that could not launch a run still reports success
FullPythonLaunchIgnored(function_name, e, input_data) ==
    [function_name |-> function_name,
     profiling_mode |-> "full_python",
     success |-> TRUE,
     function_result |-> PyNone,
     error |-> e.msg,
     input_data |-> input_data,
     strace_files |-> <<>>,
     stdout |-> AbsentKey,
     stderr |-> AbsentKey]

\* the dict of lines 262-268
FullPythonFailureResult(function_name, e, input_data) ==
    [function_name |-> function_name,
     profiling_mode |-> "full_python",
     success |-> FALSE,
     function_result |-> AbsentKey,
     error |-> e.msg,
     input_data |-> input_data,
     strace_files |-> <<>>,
     stdout |-> AbsentKey,
     stderr |-> AbsentKey]

\* lines 166-191: what a run of the generated script leaves in the
\* CompletedProcess: print(repr(result)), or print(f"ERROR: {e}") and
\* sys.exit(1), after whatever the workload printed itself
ScriptRun(b) ==
    IF b.kind = "return"
    THEN [returncode |-> 0, stdout |-> b.noise \o PyRepr(b.val) \o <<NL>>, stderr |-> <<>>]
    ELSE [returncode |-> FaultExitCode,
          stdout |-> b.noise \o <<"ERROR:", SP>> \o b.msg \o <<NL>>,
          stderr |-> <<>>]

\* line 174: the script's text holds repr(input_data) after "input_data = ";
\* line 185: the script calls handler(input_data) with what that text denotes
ScriptInput(input_data) == EvalPayload(ReprPayload(input_data))

\* strace could not trace the script: it exits 1 with a message on stderr
CollectorFailed == [returncode |-> 1, stdout |-> <<>>, stderr |-> StraceStderr]

\* strace could not start python3: it exits 1 with another message
StraceStderrNoExec == <<"strace: Can't stat 'python3': No such file or directory">>
CollectorNoExec == [returncode |-> 1, stdout |-> <<>>, stderr |-> StraceStderrNoExec]

\* the ways strace ends without having run the script
CollectorFailures == {CollectorFailed, CollectorNoExec}

\* lines 217-234: function_result and error_msg from the first run
ParseOutput(cp) ==
    IF cp.returncode = 0
    THEN LET output_line == Strip(cp.stdout)
             parsed == PyEval(output_line)
         IN [function_result |->
                IF output_line # <<>> /\ ~StartsWithError(output_line) /\ parsed.ok
                THEN parsed.val ELSE PyNone,
             error_msg |-> PyNone]
    ELSE IF cp.stdout # <<>> /\ StartsWithError(cp.stdout)
    THEN [function_result |-> PyNone, error_msg |-> PyStr(Strip(AfterError(cp.stdout)))]
    ELSE [function_result |-> PyNone,
          error_msg |-> PyStr(<<"Process failed with exit code ">> \o Digits(cp.returncode)
                              \o (IF cp.stderr # <<>> THEN <<": ">> \o cp.stderr ELSE <<>>))]

\* the outcome is read from the output of the full-granularity run
ExtractFromFull(rs, rf) == ParseOutput(rf)

\* lines 216-234 have both CompletedProcess objects in scope and read
\* result_summary
ExtractOutcome(rs, rf) == ParseOutput(rs)

\* lines 148-162: the call from main
SpawnCall ==
    /\ pc = "m_call_fp"
    /\ exc' = NoExc
    /\ retval' = NoRetval
    /\ pc' = "p_script"
    /\ UNCHANGED <<writes, handler_input, functions, handler,
                   target_func, summary, strace_proc, function_result,
                   error_msg, proc, attach_latency, exit_latency, fs, script,
                   result_summary, result_full, results, printed, events>>

\* lines 165-193: the transient script is written (delete=False)
SpawnScript ==
    /\ pc = "p_script"
    /\ script' = "exists"
    /\ events' = Log("full_python", "script created")
    /\ pc' = "p_run1"
    /\ UNCHANGED <<writes, handler_input, functions, handler,
                   target_func, summary, strace_proc, function_result,
                   error_msg, exc, retval, proc, attach_latency, exit_latency, fs,
                   result_summary, result_full, results, printed>>

\* no clause of its own for TimeoutExpired
SpawnCatchAny(e) == "p_except"

\* the except clause of lines 253-268 an exception of the try body reaches
SpawnCatch(e) == IF e.type = "TimeoutExpired" THEN "p_except_timeout" ELSE "p_except"

RunSession(i) == IF i = 1 THEN "fullpython_summary" ELSE "fullpython_full"
RunPc(i) == IF i = 1 THEN "p_run1" ELSE "p_run2"
RunWaitPc(i) == IF i = 1 THEN "p_run1_wait" ELSE "p_run2_wait"

\* lines 199 and 209: subprocess.run starts strace on the script, or raises
\* because strace is missing
SpawnRunStart(i) ==
    /\ pc = RunPc(i)
    /\ \/ /\ exc' = FileNotFoundError
          /\ pc' = SpawnCatch(FileNotFoundError)
          /\ events' = Log("full_python", "run raised")
          /\ UNCHANGED <<proc, fs>>
       \/ /\ proc' = [proc EXCEPT ![RunSession(i)] = "observing"]
          /\ fs' = [fs EXCEPT ![RunSession(i)] = "empty"]
          /\ pc' = RunWaitPc(i)
          /\ events' = Log("full_python", "run")
          /\ UNCHANGED exc
    /\ UNCHANGED <<writes, handler_input, functions, handler,
                   target_func, summary, strace_proc, function_result,
                   error_msg, retval, attach_latency, exit_latency, script,
                   result_summary, result_full, results, printed>>

\* lines 199-214: subprocess.run waits for strace: the run exceeds timeout=60,
\* strace is killed and TimeoutExpired is raised; or strace ends, having
\* traced the script or having failed to
SpawnRunWait(i) ==
    /\ pc = RunWaitPc(i)
    /\ script = "exists"
    /\ proc' = [proc EXCEPT ![RunSession(i)] = "exited"]
    /\ \E dur \in RunDurations :
         IF dur > RunTimeout
         THEN /\ exc' = TimeoutExpired(RunTimeout)
              /\ pc' = SpawnCatch(TimeoutExpired(RunTimeout))
              /\ events' = Log("full_python", "run timed out")
              /\ UNCHANGED <<fs, result_summary, result_full, handler_input>>
         ELSE \E cp \in {ScriptRun(handler)} \cup CollectorFailures :
                /\ IF i = 1
                   THEN result_summary' = cp /\ result_full' = result_full
                   ELSE result_full' = cp /\ result_summary' = result_summary
                /\ fs' = [fs EXCEPT ![RunSession(i)] =
                             IF cp \in CollectorFailures THEN "empty" ELSE "written"]
                /\ pc' = IF i = 1 THEN "p_run2" ELSE "p_parse"
                /\ events' = Log("full_python", IF cp \in CollectorFailures THEN "run failed"
                                                 ELSE "run completed")
                /\ handler_input' =
                       IF cp \notin CollectorFailures /\ handler.kind # "load_fault"
                       THEN [handler_input EXCEPT !["full_python"] = ScriptInput(InputData)]
                       ELSE handler_input
                /\ UNCHANGED exc
    /\ UNCHANGED <<writes, functions, handler, target_func, summary, strace_proc, function_result,
                   error_msg, retval, attach_latency, exit_latency, script, results,
                   printed>>

\* lines 216-251: the output of the first run is parsed and the dict returned
SpawnParse ==
    /\ pc = "p_parse"
    /\ LET out == ExtractOutcome(result_summary, result_full)
       IN /\ function_result' = out.function_result
          /\ error_msg' = out.error_msg
          /\ retval' = FullPythonSuccessResult(target_func, out.function_result,
                          out.error_msg, InputData,
                          StraceFile("fullpython_summary", target_func),
                          StraceFile("fullpython_full", target_func), result_summary)
    /\ pc' = "p_finally"
    /\ UNCHANGED <<writes, handler_input, functions, handler,
                   target_func, summary, strace_proc, exc, proc,
                   attach_latency, exit_latency, fs, script, result_summary, result_full,
                   results, printed, events>>

\* lines 253-260: except subprocess.TimeoutExpired
SpawnExceptTimeout ==
    /\ pc = "p_except_timeout"
    /\ retval' = FullPythonTimeoutResult(target_func, InputData)
    /\ exc' = NoExc
    /\ pc' = "p_finally"
    /\ UNCHANGED <<writes, handler_input, functions, handler,
                   target_func, summary, strace_proc, function_result,
                   error_msg, proc, attach_latency, exit_latency, fs, script,
                   result_summary, result_full, results, printed, events>>

\* lines 261-268: except Exception as e
SpawnExcept ==
    /\ pc = "p_except"
    /\ retval' = FullPythonFailureResult(target_func, exc, InputData)
    /\ exc' = NoExc
    /\ pc' = "p_finally"
    /\ UNCHANGED <<writes, handler_input, functions, handler,
                   target_func, summary, strace_proc, function_result,
                   error_msg, proc, attach_latency, exit_latency, fs, script,
                   result_summary, result_full, results, printed, events>>

\* the file is left in place
UnlinkSkipped(f) == f

\* line 272: os.unlink(temp_script_path)
Unlink(f) == "deleted"

\* lines 269-274, then the assignment of the returned dict in main
SpawnFinally ==
    /\ pc = "p_finally"
    /\ script' = Unlink(script)
    /\ results' = [results EXCEPT !["fullpython_result"] = retval]
    /\ retval' = NoRetval
    /\ events' = Log("full_python", "unlink")
    /\ pc' = "m_report"
    /\ UNCHANGED <<writes, handler_input, functions, handler,
                   target_func, summary, strace_proc, function_result,
                   error_msg, exc, proc, attach_latency, exit_latency, fs, result_summary,
                   result_full, printed>>

\* --------------------------------------------------------------------- main
\* lines 286-293: the target is looked up
MainResolve ==
    /\ pc = "m_resolve"
    /\ target_func' = FindTarget(functions)
    /\ pc' = IF FindTarget(functions) # NoTarget THEN "m_call_rs" ELSE "m_list"
    /\ UNCHANGED <<writes, handler_input, functions, handler,
                   summary, strace_proc, function_result, error_msg,
                   exc, retval, proc, attach_latency, exit_latency, fs, script,
                   result_summary, result_full, results, printed, events>>

\* lines 314-339: the details of runtime_full_result and fullpython_result are
\* printed when their success flag is set (the block for
\* runtime_summary_result is commented out)
ReportedResults == {"runtime_full_result", "fullpython_result"}

\* a detail block is printed whatever the flag says
PrintsDetailAlways(res) == TRUE

\* lines 325 and 333: if ...['success']
PrintsDetail(res) == res.success

MainReport ==
    /\ pc = "m_report"
    /\ printed' = {r \in ReportedResults : PrintsDetail(results[r])}
    /\ pc' = "done"
    /\ UNCHANGED <<writes, handler_input, functions, handler,
                   target_func, summary, strace_proc, function_result,
                   error_msg, exc, retval, proc, attach_latency, exit_latency, fs, script,
                   result_summary, result_full, results, events>>

\* lines 341-345: no target: the first functions are listed
Listed(funcs) == {funcs[i] : i \in 1..(IF Len(funcs) < 5 THEN Len(funcs) ELSE 5)}

MainList ==
    /\ pc = "m_list"
    /\ printed' = {"available functions"} \cup Listed(functions)
    /\ pc' = "done"
    /\ UNCHANGED <<writes, handler_input, functions, handler,
                   target_func, summary, strace_proc, function_result,
                   error_msg, exc, retval, proc, attach_latency, exit_latency, fs, script,
                   result_summary, result_full, results, events>>

Next ==
    \/ MainResolve
    \/ AttachCall(TRUE)
    \/ AttachCall(FALSE)
    \/ AttachPopen
    \/ AttachSleep
    \/ CollectorAttaches
    \/ AttachLoad
    \/ AttachHandler
    \/ AttachSignal
    \/ AttachWait
    \/ AttachReturn
    \/ AttachExcept
    \/ AttachFinally
    \/ CollectorExitsLate
    \/ SpawnCall
    \/ SpawnScript
    \/ SpawnRunStart(1)
    \/ SpawnRunWait(1)
    \/ SpawnRunStart(2)
    \/ SpawnRunWait(2)
    \/ SpawnParse
    \/ SpawnExceptTimeout
    \/ SpawnExcept
    \/ SpawnFinally
    \/ MainReport
    \/ MainList

Spec == Init /\ [][Next]_vars

\* ------------------------------------------------- artifact paths over runs
\* lines 76-91 and 161-214 over successive workloads: the three calls main
\* makes for one workload leave four artifact files, each opened by strace
\* with -o, which truncates a file of the same path
ProfilingPass(name) ==
    /\ Cardinality({w.name : w \in writes} \cup {name}) <= MaxPasses
    /\ writes' = writes \cup {[path |-> PathText(p, name), prefix |-> p, name |-> name] :
                                 p \in Sessions}
    /\ UNCHANGED <<functions, handler, pc, target_func, summary, strace_proc,
                   function_result, error_msg, exc, retval, proc, attach_latency,
                   exit_latency, fs, script, result_summary, result_full, results,
                   printed, events, handler_input>>

InitPaths ==
    /\ Init
    /\ functions = <<>>
    /\ handler = [kind |-> "return", val |-> PyNone, msg |-> <<>>, noise |-> <<>>]

NextPaths == \E name \in WorkloadNames : ProfilingPass(name)

PathSpec == InitPaths /\ [][NextPaths]_vars

\* ------------------------------------------------------------- properties
Happened(s, e) == \E i \in 1..Len(events[s]) : events[s][i] = e
Count(s, e) == Cardinality({i \in 1..Len(events[s]) : events[s][i] = e})

ResultName(s) == IF s = "runtime_summary" THEN "runtime_summary_result"
                 ELSE "runtime_full_result"
\* the call of the profile function has returned its dict to main
Returned(r) == results[r] # NoResult
AttachResult(s) == results[ResultName(s)]
SpawnResult == results["fullpython_result"]

\* a value the reader of a result dict sees as missing
IsNull(v) == v \in {PyNone, AbsentKey}

\* the workload raised in this attach session
Faulted(s) == Happened(s, "load raised") \/ Happened(s, "handler raised")

\* C1: in attach mode, when the collector does not exit within the bounded
\* wait after the interrupt, the session escalates to termination and the
\* returned result still has success = true and carries the workload's
\* returned value or fault message.
C1_StopTimeoutStillSuccess ==
    \A s \in AttachSessions :
        (Returned(ResultName(s)) /\ Happened(s, "wait raised")) =>
            /\ Happened(s, "terminate")
            /\ AttachResult(s).success
            /\ IF Faulted(s)
               THEN AttachResult(s).error = PyStr(handler.msg)
               ELSE AttachResult(s).function_result = handler.val

\* C2: in attach mode, whenever the load or the handler of the workload
\* raises, the interrupt is still sent and the collector's exit awaited, and
\* the result has success = true with the fault as its error message.
C2_FaultKeepsStopAndSuccess ==
    \A s \in AttachSessions :
        (Returned(ResultName(s)) /\ Faulted(s)) =>
            /\ Happened(s, "send_signal")
            /\ Happened(s, "wait") \/ Happened(s, "wait raised")
            /\ AttachResult(s).success
            /\ AttachResult(s).error = PyStr(handler.msg)

\* C3: once profile_full_python has returned, on any path (both runs
\* completed, workload fault, timeout of either run, launch failure), the
\* transient script it created no longer exists.
C3_ScriptRemovedOnReturn ==
    /\ Returned("fullpython_result") => script = "deleted"
    /\ pc \in {"p_run1", "p_run1_wait", "p_run2", "p_run2_wait", "p_parse",
               "p_except_timeout", "p_except", "p_finally"} => script = "exists"

\* a spawn-mode call has returned after its second run timed out, and the
\* script is gone
C3_Witness ==
    /\ Returned("fullpython_result")
    /\ Happened("full_python", "run timed out")
    /\ Count("full_python", "run") = 2
    /\ script = "deleted"

\* C4: a spawn-mode session one of whose runs exceeds the timeout returns a
\* dict with success = false, the timed-out message and no returned value;
\* the exception does not leave profile_full_python.
C4_TimeoutYieldsFailure ==
    Happened("full_python", "run timed out") =>
        /\ pc \in {"p_except_timeout", "p_finally", "m_report", "done"}
        /\ pc \in {"m_report", "done"} =>
              /\ Returned("fullpython_result")
              /\ SpawnResult.success = FALSE
              /\ SpawnResult.error = MsgTimedOut
              /\ SpawnResult.function_result = AbsentKey

\* the first run timed out and the call has returned its failure dict
C4_Witness ==
    /\ Returned("fullpython_result")
    /\ Happened("full_python", "run timed out")
    /\ Count("full_python", "run") = 1
    /\ SpawnResult.success = FALSE

\* C5: in attach mode, when strace is missing or is refused the attach, the
\* session never observes, the result has success = false and a message, and
\* Popen is not called again.
C5_AttachFailureReported ==
    \A s \in AttachSessions :
        (Returned(ResultName(s))
         /\ (Happened(s, "Popen raised") \/ Happened(s, "attach denied"))) =>
            /\ ~Happened(s, "attached")
            /\ AttachResult(s).success = FALSE
            /\ ~IsNull(AttachResult(s).error)
            /\ Count(s, "Popen") + Count(s, "Popen raised") = 1

\* C6: at most one collector is observing in any state: the collector of a
\* stage has stopped before the collector of the next stage is started.
C6_OneCollectorObserving ==
    Cardinality({s \in Sessions : proc[s] = "observing"}) <= 1

\* the collector of this call could not be started, stopped or run
SessionFailed(r) ==
    CASE r = "runtime_summary_result" ->
            \E e \in {"Popen raised", "attach denied", "wait raised"} :
                Happened("runtime_summary", e)
      [] r = "runtime_full_result" ->
            \E e \in {"Popen raised", "attach denied", "wait raised"} :
                Happened("runtime_full", e)
      [] r = "fullpython_result" ->
            \E e \in {"run raised", "run timed out", "run failed"} :
                Happened("full_python", e)

\* C7: no failure of starting, stopping or running the collector leaves the
\* profile functions: each becomes a result with success = false and a
\* message, and main reaches its report with all three results.
C7_FailuresBecomeResults ==
    /\ pc # "crashed"
    /\ pc \in {"m_report", "done"} /\ target_func # NoTarget =>
          \A r \in ResultNames : Returned(r)
    /\ \A r \in ResultNames :
          (Returned(r) /\ SessionFailed(r)) =>
              (results[r].success = FALSE /\ ~IsNull(results[r].error))

\* C8: an attach-mode session whose collector was started has, once the
\* call has returned, a non-empty artifact file; and a result never names
\* an artifact that does not exist.
C8_AttachArtifactWritten ==
    \A s \in AttachSessions :
        Returned(ResultName(s)) =>
            /\ Happened(s, "Popen") => fs[s] = "written"
            /\ AttachResult(s).strace_files # <<>> => fs[s] # "missing"

\* C9: when the workload raises, every returned result, of attach mode and
\* of spawn mode, has a non-null error and no returned value.
C9_FaultGivesErrorNoValue ==
    handler.kind # "return" =>
        \A r \in ResultNames :
            Returned(r) =>
                (~IsNull(results[r].error) /\ IsNull(results[r].function_result))

\* the handler raised in all three sessions, each of which ran its
\* protocol to the end and reports the message of the exception
C9_Witness ==
    /\ handler.kind = "fault"
    /\ \A r \in ResultNames :
          Returned(r) /\ results[r].success /\ results[r].error = PyStr(handler.msg)
    /\ Happened("runtime_full", "handler raised")

\* C10: when the handler returns, a result whose session ran to the end has
\* a null error and a returned value equal to what the handler returned; in
\* spawn mode the value decoded from the first run's output equals the value
\* the script encoded, whatever else the run printed (stated here for the
\* values whose repr() evaluates back to them).
C10_ReturnedValueExact ==
    /\ \A s \in AttachSessions :
          (Returned(ResultName(s)) /\ Happened(s, "handler")
           /\ AttachResult(s).success) =>
              /\ AttachResult(s).error = PyNone
              /\ AttachResult(s).function_result = handler.val
    /\ (Returned("fullpython_result") /\ handler.kind = "return"
        /\ PyEval(PyRepr(handler.val)) = EvalOk(handler.val)
        /\ SpawnResult.success /\ result_summary = ScriptRun(handler)) =>
              /\ SpawnResult.error = PyNone
              /\ SpawnResult.function_result = handler.val

\* no trace stage has run
NoStageRan ==
    /\ \A r \in ResultNames : ~Returned(r)
    /\ \A s \in Sessions : proc[s] = "none" /\ fs[s] = "missing"
    /\ \A c \in DOMAIN events : events[c] = <<>>
    /\ script = "none"

ValueSet(res) == ~IsNull(res.function_result)
TimedOutSet(res) == res.error = MsgTimedOut
FaultSet(res) == ~IsNull(res.error) /\ res.error # MsgTimedOut

\* C12: every returned result has exactly one of returned value, fault
\* message and timed-out set (stated here for workloads that do not return
\* None, whose returned value cannot be told from a missing one).
C12_ExactlyOneOutcome ==
    (handler.kind = "return" => handler.val # PyNone) =>
        \A r \in ResultNames :
            Returned(r) =>
                Cardinality({p \in {"value", "fault", "timeout"} :
                    CASE p = "value" -> ValueSet(results[r])
                      [] p = "fault" -> FaultSet(results[r])
                      [] p = "timeout" -> TimedOutSet(results[r])}) = 1

\* the lines of a text, without their line breaks
RECURSIVE SplitLines(_)
SplitLines(s) ==
    IF s = <<>> THEN <<>>
    ELSE LET brk == IF \E i \in 1..Len(s) : s[i] = NL
                    THEN CHOOSE i \in 1..Len(s) : s[i] = NL /\ \A j \in 1..(i - 1) : s[j] # NL
                    ELSE Len(s) + 1
         IN <<SubSeq(s, 1, brk - 1)>> \o SplitLines(SubSeq(s, brk + 1, Len(s)))

\* the messages of the error-prefixed lines of a text
ErrorLineMessages(s) ==
    LET ls == SplitLines(s)
    IN {Strip(Tail(ls[i])) : i \in {j \in 1..Len(ls) : StartsWithError(ls[j])}}

\* C13: in a spawn-mode result, when the first run exited with 0 the
\* returned value is what its standard output parses to; when it exited
\* non-zero the error is the message of an error-prefixed line whenever the
\* output holds one, and otherwise the message made of the exit code and
\* standard error.
C13_ErrorLineExtracted ==
    (Returned("fullpython_result") /\ SpawnResult.success) =>
        IF result_summary.returncode = 0
        THEN /\ SpawnResult.function_result =
                    (IF PyEval(result_summary.stdout).ok
                     THEN PyEval(result_summary.stdout).val ELSE PyNone)
             /\ SpawnResult.error = PyNone
        ELSE IF ErrorLineMessages(result_summary.stdout) # {}
        THEN \E m \in ErrorLineMessages(result_summary.stdout) : SpawnResult.error = PyStr(m)
        ELSE SpawnResult.error =
                PyStr(<<"Process failed with exit code ">> \o Digits(result_summary.returncode)
                      \o (IF result_summary.stderr # <<>>
                          THEN <<": ">> \o result_summary.stderr ELSE <<>>))

\* the call that produced a result
CallOf(r) ==
    CASE r = "runtime_summary_result" -> "runtime_summary"
      [] r = "runtime_full_result" -> "runtime_full"
      [] r = "fullpython_result" -> "full_python"

\* the payload of the workload main profiles: the one mapped to
\* 110.dynamic-html, {'data': 'test'} for a name that is not mapped
PayloadOfTarget ==
    IF target_func = "110.dynamic-html"
    THEN <<<<"username", PyStr(<<"testuser">>)>>, <<"random_len", PyInt(10)>>>>
    ELSE <<<<"data", PyStr(<<"test">>)>>>>

\* C14: every result returned by either mode, on the success, session
\* failure and timeout paths alike, records the payload resolved for the
\* workload (the mapped payload for a mapped name, {'data': 'test'} for an
\* unmapped one), and the handler, whenever it was called, was called with
\* that payload.
C14_ResultRecordsPayloadUsed ==
    /\ \A r \in ResultNames :
          Returned(r) => results[r].input_data = PayloadOfTarget
    /\ \A c \in Calls : handler_input[c] \in {NoInput, PayloadOfTarget}

\* all three calls returned for the unmapped name, the spawn call on its
\* timeout path after the script had called the handler with the fallback,
\* an attach call failed and the other succeeded
C14_Witness ==
    /\ target_func = "110.dynamic-html-v2"
    /\ \A r \in ResultNames : Returned(r)
    /\ Happened("full_python", "run timed out")
    /\ ~SpawnResult.success
    /\ handler_input["full_python"] = <<<<"data", PyStr(<<"test">>)>>>>
    /\ ~AttachResult("runtime_summary").success
    /\ AttachResult("runtime_full").success
    /\ handler_input["runtime_full"] = <<<<"data", PyStr(<<"test">>)>>>>

\* the same for the mapped name: the two-entry payload went through the
\* script's text and reached the handler
C14_WitnessMapped ==
    /\ target_func = "110.dynamic-html"
    /\ Returned("fullpython_result")
    /\ handler_input["full_python"] =
          <<<<"username", PyStr(<<"testuser">>)>>, <<"random_len", PyInt(10)>>>>

\* the collector process of a session is alive
Running(s) == proc[s] \in {"attaching", "observing"}

\* C15 (as claimed): a trace session is closed only once its collector has
\* exited or been forcibly terminated: when profile_function_in_runtime has
\* returned, on any path, no collector process it started is still running.
C15_NoCollectorAfterReturn ==
    \A s \in AttachSessions : Returned(ResultName(s)) => ~Running(s)

\* C16: artifact paths are unique per (mode, granularity, workload name):
\* the four artifacts of one pass have pairwise distinct paths and the
\* artifacts of different workload names never share a path, so that no
\* write of a later run lands on the artifact of another run.
C16_ArtifactPathsUnique ==
    \A w1, w2 \in writes :
        w1.path = w2.path => w1.prefix = w2.prefix /\ w1.name = w2.name

\* two passes were made, for the workload named "full" and for one whose
\* name begins with "full_": eight artifacts are on disk
C16_Witness ==
    /\ \E w1, w2 \in writes :
          /\ w1.name = <<"full">>
          /\ w2.name = <<"full", "_">>
    /\ Cardinality({w.path : w \in writes}) = 8

\* what the profiler itself did in a session, without the collector's own
\* events
ByProfiler(e) == e \notin {"attached", "attach denied"}
ProfilerEvents(s) == SelectSeq(events[s], ByProfiler)

\* the events that may come directly before an event of the profiler
MayPrecede(e) ==
    CASE e = "sleep" -> {"Popen"}
      [] e \in {"load", "load raised"} -> {"sleep"}
      [] e \in {"handler", "handler raised"} -> {"load"}
      [] e = "send_signal" -> {"load raised", "handler", "handler raised"}
      [] e \in {"wait", "wait raised"} -> {"send_signal"}
      [] e = "terminate" -> {"wait raised"}
      [] OTHER -> {}

\* C17: in attach mode the events of a session occur in the fixed order
\* collector start, settle delay, workload load, handler invocation,
\* interrupt, wait for the collector's exit: the load never comes before the
\* settle delay has elapsed and the interrupt never before the workload has
\* returned or faulted, so the workload runs between the end of the settle
\* delay and the interrupt.
C17_AttachOrder ==
    \A s \in AttachSessions :
        LET pe == ProfilerEvents(s) IN
        \A i \in 1..Len(pe) :
            IF i = 1 THEN pe[i] \in {"Popen", "Popen raised"}
            ELSE pe[i - 1] \in MayPrecede(pe[i])

\* a session ran to the wait: the handler was called after the settle
\* delay and returned before the interrupt, with a collector that attached
\* within the delay
C17_Witness ==
    events["runtime_full"] =
        <<"Popen", "attached", "sleep", "load", "handler", "send_signal", "wait">>

\* what a collector run can end with, whatever the workload does
RunOutcomes == {ScriptRun(b) : b \in Behaviours} \cup CollectorFailures

\* the returned value and the fault message of a result
OutcomeOf(res) == [function_result |-> res.function_result, error_msg |-> res.error]

\* the spawn call has returned a result with success = true
SpawnSucceeded == Returned("fullpython_result") /\ SpawnResult.success

\* C18 (as claimed): in a spawn-mode result with success = true the returned
\* value and the fault message are determined by the first run's exit code
\* and standard output alone: any session whose first run has the same exit
\* code and standard output, whatever its second run ended with, yields the
\* same returned value and fault message.
C18_FirstCodeAndStdoutDecide ==
    SpawnSucceeded =>
        \A first, second \in RunOutcomes :
            (/\ first.returncode = result_summary.returncode
             /\ first.stdout = result_summary.stdout) =>
                ExtractOutcome(first, second) = OutcomeOf(SpawnResult)

\* C18 (amended): in a spawn-mode result with success = true the returned
\* value and the fault message are determined by the first run's exit code,
\* standard output and standard error: any session whose first run has the
\* same three, whatever its second run ended with, yields the same returned
\* value and fault message.
C18_FirstRunDecides ==
    SpawnSucceeded =>
        \A first, second \in RunOutcomes :
            (/\ first.returncode = result_summary.returncode
             /\ first.stdout = result_summary.stdout
             /\ first.stderr = result_summary.stderr) =>
                ExtractOutcome(first, second) = OutcomeOf(SpawnResult)

\* the first run gave the workload's value and the second run ended
\* differently, the collector having failed: the result holds the value
C18_Witness ==
    /\ SpawnSucceeded
    /\ result_summary.returncode = 0
    /\ result_full \in CollectorFailures
    /\ ~IsNull(SpawnResult.function_result)

\* the launches of a collector run in the spawn call, in order
IsLaunch(e) == e \in {"run", "run raised"}
Launches == {i \in 1..Len(events["full_python"]) : IsLaunch(events["full_python"][i])}

\* C19: in spawn mode the two collector runs are strictly ordered and
\* all-or-nothing: the full-granularity run is launched only directly after
\* the summary run has ended without timing out, there is no third run, and
\* when a run timed out or could not be launched the result has
\* success = false and no returned value, even if the summary run had
\* completed with the workload's outcome.
C19_RunsOrderedAllOrNothing ==
    LET ev == events["full_python"] IN
    /\ Cardinality(Launches) <= 2
    /\ \A i, j \in Launches :
          i < j => /\ j = i + 2
                   /\ ev[i] = "run"
                   /\ ev[i + 1] \in {"run completed", "run failed"}
    /\ (/\ Returned("fullpython_result")
        /\ (Happened("full_python", "run timed out")
            \/ Happened("full_python", "run raised"))) =>
          /\ SpawnResult.success = FALSE
          /\ SpawnResult.function_result = AbsentKey

\* the summary run completed with the value the workload returned, the full
\* run timed out, and the call returned its failure dict
C19_Witness ==
    /\ Returned("fullpython_result")
    /\ events["full_python"] = <<"script created", "run", "run completed", "run",
                                 "run timed out", "unlink">>
    /\ result_summary.returncode = 0
    /\ ~IsNull(ParseOutput(result_summary).function_result)
    /\ SpawnResult.success = FALSE

====
